---- MODULE Spec2Model ----
(***************************************************************************)
(* Debounced user button of the STM32F407G-DISC1 board support package     *)
(* (03-Button_EXTI/Drivers/BSP/stm32f407g_disc1.c).                        *)
(*                                                                         *)
(* The model follows the driver statement by statement.  A C statement     *)
(* that reads, modifies and writes back a peripheral register ("|=",      *)
(* "&=") is two steps, a load and a store, because an interrupt of higher *)
(* priority can be taken between them.  Only the bits the driver touches   *)
(* are kept: bit BUTTON_PIN of the EXTI registers, CEN and OPM of          *)
(* TIM7->CR1, UIE of TIM7->DIER, UIF of TIM7->SR.                          *)
(*                                                                         *)
(* The peripherals act as the reference manual of the part describes:      *)
(*   - EXTI: a rising edge on the pin sets the pending bit PR when RTSR    *)
(*     selects the rising edge; the request to the NVIC is PR AND IMR;     *)
(*     PR is cleared by writing 1 to it.                                   *)
(*   - TIM7: an enabled counter counts up to ARR and overflows; the        *)
(*     overflow sets UIF and, in one-pulse mode, clears CEN.               *)
(*   - NVIC: a request line that rises, or that is high while its handler  *)
(*     is not active, latches the interrupt pending; the latch is cleared  *)
(*     on handler entry; a pending enabled interrupt preempts when its     *)
(*     preemption priority VALUE is strictly LOWER than that of the        *)
(*     running handler.                                                    *)
(*   - GPIO: a write to BSRR sets the ODR bits written in its low half and *)
(*     resets those written in its high half; BSRR reads as 0.             *)
(* Button edges and timer ticks are asynchronous to the program: they may  *)
(* fall between any two statements.                                         *)
(***************************************************************************)
EXTENDS Integers, Naturals, Sequences, FiniteSets, TLC

(***************************************************************************)
(* Program constants                                                       *)
(***************************************************************************)
BUTTON_DEBOUNCE_MS == 20

BUTTON_MODE_GPIO == 0

BUTTON_MODE_EXTI == 1

NVIC_PRIORITYGROUP_4 == 3

NVIC_PRIO_BITS == 4

EXTI0_PREEMPT == 14

TIM7_PREEMPT == 15

SystemCoreClock == 168000000

\* the LEDs of the board: LED_TypeDef, LEDn, LED_PIN[]
LED_GREEN == 0

LED_ORANGE == 1

LED_RED == 2

LED_BLUE == 3

LEDn == 4

LED_PIN == <<12, 13, 14, 15>>

\* BSP_LED_On(led): the write to GPIOD->BSRR sets the pin in ODR
BSP_LED_On(odr, led) == IF led < LEDn THEN odr \cup {LED_PIN[led + 1]} ELSE odr

(***************************************************************************)
(* Bounds of the model                                                     *)
(***************************************************************************)
\* number of rising edges the button produces in one behaviour
MaxEdges == 3

\* number of calls of BSP_Button_Init at startup
MaxInitCalls == 2

\* largest value passed as the mode of BSP_Button_Init (0 and 1 are the modes)
MaxMode == 2

\* largest small argument of Delay_us
MaxUs == 2

\* largest argument of SysTick_delay_ms
MaxMs == 3

\* largest value passed as the index of an LED (0 .. LEDn - 1 are the LEDs)
MaxLed == 5

IRQs == {"EXTI0", "TIM7"}

VARIABLES
    Mode,       \* the argument of BSP_Button_Init
    initCalls,  \* calls of BSP_Button_Init that main() still has to make
    mpc,        \* position of main(): the statements of BSP_Button_Init, then the loop
    primask,    \* TRUE while interrupts are globally disabled
    button,     \* level of the button pin PA0 (GPIOA->IDR bit BUTTON_PIN)
    IMR,        \* EXTI->IMR  bit BUTTON_PIN
    RTSR,       \* EXTI->RTSR bit BUTTON_PIN
    FTSR,       \* EXTI->FTSR bit BUTTON_PIN
    PR,         \* EXTI->PR   bit BUTTON_PIN
    TIM7EN,     \* RCC->APB1ENR bit TIM7EN
    CEN,        \* TIM7->CR1 bit CEN
    OPM,        \* TIM7->CR1 bit OPM
    UIE,        \* TIM7->DIER bit UIE
    UIF,        \* TIM7->SR bit UIF
    CNT,        \* TIM7->CNT
    ARR,        \* TIM7->ARR
    PSC,        \* TIM7->PSC (16 bits)
    nvicEn,     \* NVIC enable bit of each interrupt
    nvicPend,   \* NVIC pending latch of each interrupt
    nvicPrio,   \* NVIC priority byte (encoded priority) of each interrupt
    stack,      \* the active handlers, innermost last
    epc,        \* position of EXTI0_IRQHandler
    etmp,       \* register value loaded by EXTI0_IRQHandler's read-modify-write
    tpc,        \* position of TIM7_IRQHandler
    ttmp,       \* register value loaded by TIM7_IRQHandler's read-modify-write
    ODR,        \* GPIOD->ODR: the set of pin numbers that are driven high (the LEDs)
    eLog,       \* history: what the current EXTI0_IRQHandler invocation has done
    tLog,       \* history: what the current TIM7_IRQHandler invocation has done
    hist        \* history counters:
                \*   edges          rising edges of the button
                \*   edgesUnmasked  rising edges that arrived while IMR was set
                \*   edgesInHandler rising edges that arrived while EXTI0_IRQHandler was active
                \*   starts         executions of "TIM7->CR1 |= TIM_CR1_CEN"
                \*   runs           times CEN went from 0 to 1
                \*   expires        update events of TIM7
                \*   handled        TIM7_IRQHandler invocations that found UIF set
                \*   reads          samples BSP_Button_Read() taken by TIM7_IRQHandler
                \*   pressed        samples that read 1
                \*   calls          invocations of BSP_Button_Callback
                \*   inits          completed calls of BSP_Button_Init
                \*   edgesAtClear   value of edges when BSP_Button_EXTI_Init last cleared PR
                \*   eNoop          EXTI0_IRQHandler invocations that found PR clear
                \*   tNoop          TIM7_IRQHandler invocations that found UIF clear

\* Delay_us (03-Button_EXTI/Core/Src/delay.c) and TIM6
VARIABLES
    dpc,            \* position of the caller of Delay_Init / Delay_us
    us,             \* the argument of Delay_us
    last_delay_us,  \* static uint32_t last_delay_us
    TIM6,           \* TIM6 and its clock enable: fields EN (RCC->APB1ENR TIM6EN), PSC,
                    \* ARR, CNT, CEN and OPM (CR1), UIF (SR)
    dhist           \* history of the current Delay_us call:
                    \*   called    Delay_us has been called
                    \*   atCall    TIM6 and last_delay_us when the call began
                    \*   startedAt TIM6->CNT when the call set CEN (-1: it has not)
                    \*   seenUIF   the wait loop has read UIF set
                    \*   wroteARR  the call has written TIM6->ARR
                    \*   accepted  the last argument that passed the range check (0: none)

\* SysTick_delay_ms (01-LED_Blinky_SysTick/Core/Src/systick.c)
VARIABLES
    spc,            \* position of the caller of SysTick_delay_ms
    ms,             \* the argument of SysTick_delay_ms
    start,          \* the local variable start
    systick_ms,     \* static volatile uint32_t systick_ms
    woken,          \* an interrupt has been taken since the last __WFI()
    elapsed         \* history: SysTick_Handler invocations since the call began

\* The LED functions (03-Button_EXTI/Drivers/BSP/stm32f407g_disc1.c,
\* 01-LED_Blinky_SysTick/Drivers/BSP/bsp_led.c).  A register is the set of the
\* positions of its bits that are 1.
VARIABLES
    lpc,            \* position of the caller of the LED functions
    led,            \* the argument of BSP_LED_On / BSP_LED_Off / BSP_LED_Toggle
    li,             \* the loop variable i of BSP_LED_Init
    ltmp,           \* the value loaded by the statement in progress
    GPIOD,          \* the LED port and its clock enable: fields EN (RCC->AHB1ENR
                    \* GPIODEN), MODER, OTYPER, OSPEEDR
    lhist           \* history of the LED calls:
                    \*   op, before          the call in progress or just returned, and
                    \*                       GPIOD->ODR when it began
                    \*   prevOp, prevLed, prevBefore   the same for the call before it
                    \*   atInit              GPIOD when BSP_LED_Init was called

delayVars == <<dpc, us, last_delay_us, TIM6, dhist>>

ledVars == <<lpc, led, li, ltmp, GPIOD, lhist>>

tickVars == <<spc, ms, start, systick_ms, woken, elapsed>>

\* BSP_Button_Init's argument and the calls still to make
mainArgs == <<Mode, initCalls>>

vars == <<Mode, initCalls, mpc, primask, button, IMR, RTSR, FTSR, PR, TIM7EN, CEN,
          OPM, UIE, UIF, CNT, ARR, PSC, nvicEn, nvicPend, nvicPrio, stack, epc, etmp,
          tpc, ttmp, ODR, eLog, tLog, hist, delayVars, tickVars, ledVars>>

extiRegs == <<IMR, RTSR, FTSR, PR>>
timRegs  == <<TIM7EN, CEN, OPM, UIE, UIF, CNT, ARR, PSC>>
nvicCfg  == <<nvicEn, nvicPrio>>
extiCtx  == <<epc, etmp, eLog>>
timCtx   == <<tpc, ttmp, tLog>>

(***************************************************************************)
(* NVIC (CMSIS core functions used by the driver)                          *)
(***************************************************************************)
Min(a, b) == IF a < b THEN a ELSE b

\* NVIC_GetPriorityGrouping(): the grouping System_Init() has set
NVIC_GetPriorityGrouping == NVIC_PRIORITYGROUP_4

SubPriorityBits(PG) ==
    IF PG + NVIC_PRIO_BITS < 7 THEN 0 ELSE (PG + NVIC_PRIO_BITS) - 7

PreemptPriorityBits(PG) == Min(7 - PG, NVIC_PRIO_BITS)

\* NVIC_EncodePriority(PG, PreemptPriority, SubPriority)
NVIC_EncodePriority(PG, pre, sub) ==
    (pre % (2 ^ PreemptPriorityBits(PG))) * (2 ^ SubPriorityBits(PG))
        + (sub % (2 ^ SubPriorityBits(PG)))

\* the preemption (group) priority the NVIC compares: the encoded priority
\* without its sub-priority bits; a LOWER value is MORE urgent
GroupPriority(i) == nvicPrio[i] \div (2 ^ SubPriorityBits(NVIC_GetPriorityGrouping))

\* position of the interrupt in the vector table (EXTI0_IRQn = 6, TIM7_IRQn = 55)
IrqNumber(i) == IF i = "EXTI0" THEN 6 ELSE 55

Active(i) == \E k \in 1..Len(stack) : stack[k] = i

\* request line of each interrupt into the NVIC
Sig(i) ==
    IF i = "EXTI0" THEN PR = 1 /\ IMR = 1
    ELSE TIM7EN = 1 /\ UIF = 1 /\ UIE = 1

\* execution priority of the code that is running: the innermost handler's,
\* or a value above every interrupt priority for main()
CurPriority ==
    IF stack = <<>> THEN 2 ^ NVIC_PRIO_BITS ELSE GroupPriority(stack[Len(stack)])

\* interrupts that would be taken now
Preempting ==
    {i \in IRQs : nvicEn[i] /\ nvicPend[i] /\ ~primask /\ GroupPriority(i) < CurPriority}

\* the code that runs when no interrupt is being taken
Running == IF stack = <<>> THEN "main" ELSE stack[Len(stack)]

CanStep(who) == Running = who /\ Preempting = {}

\* the pending latches after a step: a request line that rises, or that is
\* high while its handler is not active, latches; entry clears the latch.
\* Used as the last conjunct of an action (it reads the primed registers).
NvicLatch(entered) ==
    nvicPend' = [i \in IRQs |->
        IF i = entered THEN FALSE
        ELSE nvicPend[i] \/ (Sig(i)' /\ ~Sig(i)) \/ (Sig(i)' /\ ~Active(i)')]

Bump(f) == hist' = [hist EXCEPT ![f] = @ + 1]

(***************************************************************************)
(* uint32_t values as pairs <<high half, low half>> of 16-bit halves       *)
(***************************************************************************)
U32(n) == <<(n \div (2 ^ 16)) % (2 ^ 16), n % (2 ^ 16)>>

\* x + 1 modulo 2^32
U32_Inc(x) ==
    IF x[2] + 1 < 2 ^ 16 THEN <<x[1], x[2] + 1>>
    ELSE <<(x[1] + 1) % (2 ^ 16), 0>>

\* a + b modulo 2^32
U32_Add(a, b) ==
    <<(a[1] + b[1] + ((a[2] + b[2]) \div (2 ^ 16))) % (2 ^ 16), (a[2] + b[2]) % (2 ^ 16)>>

\* a - b modulo 2^32
U32_Sub(a, b) ==
    <<(a[1] - b[1] - (IF a[2] < b[2] THEN 1 ELSE 0)) % (2 ^ 16), (a[2] - b[2]) % (2 ^ 16)>>

\* a < b, unsigned
U32_Lt(a, b) == a[1] < b[1] \/ (a[1] = b[1] /\ a[2] < b[2])

\* TIM6 after reset
TIM6_Reset ==
    [EN |-> 0, PSC |-> 0, ARR |-> 65535, CNT |-> 0, CEN |-> 0, OPM |-> 0, UIF |-> 0]

(***************************************************************************)
(* Reset state.  main() runs the initialisation with interrupts disabled   *)
(* and enables them afterwards (main.c line 37).                           *)
(***************************************************************************)
\* the mode main() passes
ModeArg == BUTTON_MODE_EXTI

\* the reset state of the processor, of EXTI, TIM7 and the NVIC
ResetCore ==
    /\ mpc = "m_init"
    /\ primask = TRUE
    /\ button \in {0, 1}
    /\ IMR = 0 /\ RTSR = 0 /\ FTSR = 0 /\ PR = 0
    /\ TIM7EN = 0 /\ CEN = 0 /\ OPM = 0 /\ UIE = 0 /\ UIF = 0
    /\ CNT = 0 /\ ARR = 65535 /\ PSC = 0
    /\ nvicEn = [i \in IRQs |-> FALSE]
    /\ nvicPend = [i \in IRQs |-> FALSE]
    /\ nvicPrio = [i \in IRQs |-> 0]
    /\ stack = <<>>
    /\ epc = "idle" /\ etmp = 0
    /\ tpc = "idle" /\ ttmp = 0
    /\ eLog = <<>> /\ tLog = <<>>
    /\ hist = [edges |-> 0, edgesUnmasked |-> 0, edgesInHandler |-> 0,
               starts |-> 0, runs |-> 0, expires |-> 0,
               handled |-> 0, reads |-> 0, pressed |-> 0, calls |-> 0,
               inits |-> 0, edgesAtClear |-> 0, eNoop |-> 0, tNoop |-> 0]

\* the reset state of the processor, of EXTI, TIM7, the NVIC and GPIOD
Reset == ResetCore /\ ODR = {}

\* value << n of a 32-bit unsigned value: the bits shifted past bit 31 are lost
Shl(value, n) == {b + n : b \in value} \cap (0..31)

\* the LED port as BSP_LED_Init leaves it after reset (main.c line 33): clock
\* enabled, the four LED pins general-purpose outputs
GPIOD_Ready ==
    [EN |-> 1, MODER |-> {2 * LED_PIN[k] : k \in 1..LEDn}, OTYPER |-> {},
     OSPEEDR |-> {}]

\* no call of an LED function yet
LedHist0 ==
    [op |-> "none", before |-> {}, prevOp |-> "none", prevLed |-> 0,
     prevBefore |-> {}, atInit |-> GPIOD_Ready]

\* main() is not calling an LED function
LedOff ==
    /\ lpc = "l_unused" /\ led = 0 /\ li = 0 /\ ltmp = {}
    /\ GPIOD = GPIOD_Ready
    /\ lhist = LedHist0

\* no call of Delay_us yet
DelayHist0 ==
    [called |-> FALSE, atCall |-> <<TIM6_Reset, 0>>, startedAt |-> -1,
     seenUIF |-> FALSE, wroteARR |-> FALSE, accepted |-> 0]

\* Delay_us is not in use: TIM6 in its reset state
DelayOff ==
    /\ dpc = "d_off" /\ us = 0 /\ last_delay_us = 0
    /\ TIM6 = TIM6_Reset
    /\ dhist = DelayHist0

\* SysTick_delay_ms is not in use
TickOff ==
    /\ spc = "s_off" /\ ms = U32(0) /\ start = U32(0) /\ systick_ms = U32(0)
    /\ woken = FALSE /\ elapsed = 0

\* 03-Button_EXTI as main() runs it: one call BSP_Button_Init(BUTTON_MODE_EXTI)
Init ==
    /\ Reset
    /\ Mode = ModeArg /\ initCalls = 1
    /\ DelayOff /\ TickOff /\ LedOff

(***************************************************************************)
(* main(): BSP_Button_Init(BUTTON_MODE_EXTI), then __enable_irq()          *)
(***************************************************************************)
\* where main() continues when a call of BSP_Button_Init returns
AfterInit(left) == IF left > 0 THEN "m_init" ELSE "m_enable_irq"

\* variant: every mode but BUTTON_MODE_GPIO configures the interrupt
BSP_Button_Init_NoDefault ==
    /\ CanStep("main") /\ mpc = "m_init" /\ initCalls > 0
    /\ initCalls' = initCalls - 1
    /\ mpc' = IF Mode = BUTTON_MODE_GPIO THEN AfterInit(initCalls - 1)
              ELSE "m_exti_imr"
    /\ hist' = IF Mode = BUTTON_MODE_GPIO THEN [hist EXCEPT !.inits = @ + 1] ELSE hist
    /\ UNCHANGED <<Mode, primask, button, extiRegs, timRegs, nvicCfg, nvicPend, stack,
                   extiCtx, timCtx>>
    /\ UNCHANGED <<ODR, delayVars, tickVars, ledVars>>

\* BSP_Button_Init: the switch on Mode.  The clock enable of GPIOA and
\* BSP_Button_GPIO_Init (pin PA0 as input with pull-down) come first; they
\* write GPIO registers only.
\* A failed assert() does not return (assert.h without NDEBUG): main() stays
\* at "m_assert".
BSP_Button_Init ==
    /\ CanStep("main") /\ mpc = "m_init" /\ initCalls > 0
    /\ initCalls' = initCalls - 1
    /\ mpc' = IF Mode = BUTTON_MODE_EXTI THEN "m_exti_imr"
              ELSE IF Mode = BUTTON_MODE_GPIO THEN AfterInit(initCalls - 1)
              ELSE "m_assert"
    /\ hist' = IF Mode = BUTTON_MODE_GPIO THEN [hist EXCEPT !.inits = @ + 1] ELSE hist
    /\ UNCHANGED <<Mode, primask, button, extiRegs, timRegs, nvicCfg, nvicPend, stack,
                   extiCtx, timCtx>>
    /\ UNCHANGED <<ODR, delayVars, tickVars, ledVars>>

\* variant: the first statement toggles the IMR bit instead of setting it
BSP_Button_EXTI_Init_Toggle ==
    /\ CanStep("main")
    /\ \/ /\ mpc = "m_exti_imr"  /\ IMR' = 1 - IMR /\ mpc' = "m_exti_rtsr"
          /\ UNCHANGED <<RTSR, FTSR, PR>>
       \/ /\ mpc = "m_exti_rtsr" /\ RTSR' = 1 /\ mpc' = "m_exti_ftsr"
          /\ UNCHANGED <<IMR, FTSR, PR>>
       \/ /\ mpc = "m_exti_ftsr" /\ FTSR' = 0 /\ mpc' = "m_exti_pr"
          /\ UNCHANGED <<IMR, RTSR, PR>>
       \/ /\ mpc = "m_exti_pr"   /\ PR' = 0   /\ mpc' = "m_nvic_prio"
          /\ UNCHANGED <<IMR, RTSR, FTSR>>
    /\ hist' = IF mpc = "m_exti_pr" THEN [hist EXCEPT !.edgesAtClear = hist.edges]
                ELSE hist
    /\ UNCHANGED <<primask, button, timRegs, nvicCfg, stack, extiCtx, timCtx>>
    /\ NvicLatch("none")
    /\ UNCHANGED <<mainArgs, ODR, delayVars, tickVars, ledVars>>

\* BSP_Button_EXTI_Init, one statement per step, from "EXTI->IMR |=" on (the
\* statements before it enable SYSCFG and route PA0 to EXTI line 0)
BSP_Button_EXTI_Init ==
    /\ CanStep("main")
    /\ \/ /\ mpc = "m_exti_imr"  /\ IMR' = 1  /\ mpc' = "m_exti_rtsr"
          /\ UNCHANGED <<RTSR, FTSR, PR>>
       \/ /\ mpc = "m_exti_rtsr" /\ RTSR' = 1 /\ mpc' = "m_exti_ftsr"
          /\ UNCHANGED <<IMR, FTSR, PR>>
       \/ /\ mpc = "m_exti_ftsr" /\ FTSR' = 0 /\ mpc' = "m_exti_pr"
          /\ UNCHANGED <<IMR, RTSR, PR>>
       \/ /\ mpc = "m_exti_pr"   /\ PR' = 0   /\ mpc' = "m_nvic_prio"
          /\ UNCHANGED <<IMR, RTSR, FTSR>>
    /\ hist' = IF mpc = "m_exti_pr" THEN [hist EXCEPT !.edgesAtClear = hist.edges]
                ELSE hist
    /\ UNCHANGED <<primask, button, timRegs, nvicCfg, stack, extiCtx, timCtx>>
    /\ NvicLatch("none")
    /\ UNCHANGED <<mainArgs, ODR, delayVars, tickVars, ledVars>>

\* BSP_Button_NVIC_Init
BSP_Button_NVIC_Init ==
    /\ CanStep("main")
    /\ \/ /\ mpc = "m_nvic_prio" /\ mpc' = "m_nvic_en"
          /\ nvicPrio' = [nvicPrio EXCEPT !["EXTI0"] =
                 NVIC_EncodePriority(NVIC_GetPriorityGrouping, EXTI0_PREEMPT, 0)]
          /\ UNCHANGED nvicEn
       \/ /\ mpc = "m_nvic_en" /\ mpc' = "m_tim_clk"
          /\ nvicEn' = [nvicEn EXCEPT !["EXTI0"] = TRUE]
          /\ UNCHANGED nvicPrio
    /\ UNCHANGED <<primask, button, extiRegs, timRegs, nvicPend, stack,
                   extiCtx, timCtx, hist>>
    /\ UNCHANGED <<mainArgs, ODR, delayVars, tickVars, ledVars>>

\* BSP_Button_DebounceTimer_Init, one statement per step; PSC keeps the low
\* 16 bits of the value written
BSP_Button_DebounceTimer_Init ==
    /\ CanStep("main")
    /\ \/ /\ mpc = "m_tim_clk" /\ mpc' = "m_tim_psc" /\ TIM7EN' = 1
          /\ UNCHANGED <<CEN, OPM, UIE, UIF, CNT, ARR, PSC, nvicCfg>>
       \/ /\ mpc = "m_tim_psc" /\ mpc' = "m_tim_arr"
          /\ PSC' = ((SystemCoreClock \div 1000) - 1) % (2 ^ 16)
          /\ UNCHANGED <<TIM7EN, CEN, OPM, UIE, UIF, CNT, ARR, nvicCfg>>
       \/ /\ mpc = "m_tim_arr" /\ mpc' = "m_tim_opm" /\ ARR' = BUTTON_DEBOUNCE_MS
          /\ UNCHANGED <<TIM7EN, CEN, OPM, UIE, UIF, CNT, PSC, nvicCfg>>
       \/ /\ mpc = "m_tim_opm" /\ mpc' = "m_tim_uie" /\ OPM' = 1
          /\ UNCHANGED <<TIM7EN, CEN, UIE, UIF, CNT, ARR, PSC, nvicCfg>>
       \/ /\ mpc = "m_tim_uie" /\ mpc' = "m_tim_prio" /\ UIE' = 1
          /\ UNCHANGED <<TIM7EN, CEN, OPM, UIF, CNT, ARR, PSC, nvicCfg>>
       \/ /\ mpc = "m_tim_prio" /\ mpc' = "m_tim_en"
          /\ nvicPrio' = [nvicPrio EXCEPT !["TIM7"] =
                 NVIC_EncodePriority(NVIC_GetPriorityGrouping, TIM7_PREEMPT, 0)]
          /\ UNCHANGED <<timRegs, nvicEn>>
       \/ /\ mpc = "m_tim_en" /\ mpc' = AfterInit(initCalls)
          /\ nvicEn' = [nvicEn EXCEPT !["TIM7"] = TRUE]
          /\ UNCHANGED <<timRegs, nvicPrio>>
    /\ hist' = IF mpc = "m_tim_en" THEN [hist EXCEPT !.inits = @ + 1] ELSE hist
    /\ UNCHANGED <<primask, button, extiRegs, stack, extiCtx, timCtx>>
    /\ NvicLatch("none")
    /\ UNCHANGED <<mainArgs, ODR, delayVars, tickVars, ledVars>>

\* main(): __enable_irq(), then the LED loop, which touches neither EXTI nor TIM7
EnableIrq ==
    /\ CanStep("main") /\ mpc = "m_enable_irq"
    /\ mpc' = "m_loop" /\ primask' = FALSE
    /\ UNCHANGED <<button, extiRegs, timRegs, nvicCfg, nvicPend, stack,
                   extiCtx, timCtx, hist>>
    /\ UNCHANGED <<mainArgs, ODR, delayVars, tickVars, ledVars>>

Initialised == mpc = "m_loop"

(***************************************************************************)
(* The environment: the button and the TIM7 counter                        *)
(***************************************************************************)
\* the pin goes from low to high: a rising edge, latched in PR when selected
ButtonPress ==
    /\ button = 0 /\ hist.edges < MaxEdges
    /\ button' = 1
    /\ PR' = IF RTSR = 1 THEN 1 ELSE PR
    /\ hist' = [hist EXCEPT
          !.edges = @ + 1,
          !.edgesUnmasked = IF IMR = 1 THEN @ + 1 ELSE @,
          !.edgesInHandler = IF Active("EXTI0") THEN @ + 1 ELSE @]
    /\ UNCHANGED <<mpc, primask, IMR, RTSR, FTSR, timRegs, nvicCfg, stack,
                   extiCtx, timCtx>>
    /\ NvicLatch("none")
    /\ UNCHANGED <<mainArgs, ODR, delayVars, tickVars, ledVars>>

\* the pin goes from high to low: a falling edge, latched in PR when selected
ButtonRelease ==
    /\ button = 1
    /\ button' = 0
    /\ PR' = IF FTSR = 1 THEN 1 ELSE PR
    /\ UNCHANGED <<mpc, primask, IMR, RTSR, FTSR, timRegs, nvicCfg, stack,
                   extiCtx, timCtx, hist>>
    /\ NvicLatch("none")
    /\ UNCHANGED <<mainArgs, ODR, delayVars, tickVars, ledVars>>

\* one tick of the enabled TIM7 counter; at ARR it overflows (update event):
\* UIF is set and, in one-pulse mode, the hardware clears CEN
TimerTick ==
    /\ TIM7EN = 1 /\ CEN = 1
    /\ IF CNT < ARR
       THEN /\ CNT' = CNT + 1
            /\ UNCHANGED <<CEN, UIF, hist>>
       ELSE /\ CNT' = 0
            /\ UIF' = 1
            /\ CEN' = IF OPM = 1 THEN 0 ELSE 1
            /\ Bump("expires")
    /\ UNCHANGED <<mpc, primask, button, extiRegs, TIM7EN, OPM, UIE, ARR, PSC,
                   nvicCfg, stack, extiCtx, timCtx>>
    /\ NvicLatch("none")
    /\ UNCHANGED <<mainArgs, ODR, delayVars, tickVars, ledVars>>

(***************************************************************************)
(* Exception entry and return                                              *)
(***************************************************************************)
\* the pending interrupt the NVIC takes: the most urgent, then the lowest number
Taken(i) ==
    /\ i \in Preempting
    /\ \A j \in Preempting :
          \/ GroupPriority(i) < GroupPriority(j)
          \/ GroupPriority(i) = GroupPriority(j) /\ IrqNumber(i) <= IrqNumber(j)

EXTI0_Entry ==
    /\ Taken("EXTI0")
    /\ stack' = Append(stack, "EXTI0")
    /\ epc' = "e_chk" /\ eLog' = <<>>
    /\ UNCHANGED <<mpc, primask, button, extiRegs, timRegs, nvicCfg, etmp, timCtx, hist>>
    /\ NvicLatch("EXTI0")
    /\ UNCHANGED <<mainArgs, ODR, delayVars, tickVars, ledVars>>

TIM7_Entry ==
    /\ Taken("TIM7")
    /\ stack' = Append(stack, "TIM7")
    /\ tpc' = "t_chk" /\ tLog' = <<>>
    /\ UNCHANGED <<mpc, primask, button, extiRegs, timRegs, nvicCfg, ttmp, extiCtx, hist>>
    /\ NvicLatch("TIM7")
    /\ UNCHANGED <<mainArgs, ODR, delayVars, tickVars, ledVars>>

Pop == SubSeq(stack, 1, Len(stack) - 1)

(***************************************************************************)
(* EXTI0_IRQHandler                                                        *)
(***************************************************************************)
\* variant: the line is masked before the pending flag is acknowledged
EXTI0_After_MaskFirst(p) ==
    CASE p = "e_chk"     -> "e_mask_ld"
      [] p = "e_mask_ld" -> "e_mask_st"
      [] p = "e_mask_st" -> "e_ack"
      [] p = "e_ack"     -> "e_cnt"
      [] p = "e_cnt"     -> "e_cen_ld"
      [] p = "e_cen_ld"  -> "e_cen_st"
      [] p = "e_cen_st"  -> "e_ret"

\* the order of the handler's statements: the statement that follows p
EXTI0_After(p) ==
    CASE p = "e_chk"     -> "e_ack"
      [] p = "e_ack"     -> "e_mask_ld"
      [] p = "e_mask_ld" -> "e_mask_st"
      [] p = "e_mask_st" -> "e_cnt"
      [] p = "e_cnt"     -> "e_cen_ld"
      [] p = "e_cen_ld"  -> "e_cen_st"
      [] p = "e_cen_st"  -> "e_ret"

\* if (EXTI->PR & (1 << BUTTON_PIN))
EXTI0_Check ==
    /\ CanStep("EXTI0") /\ epc = "e_chk"
    /\ epc' = IF PR = 1 THEN EXTI0_After("e_chk") ELSE "e_ret"
    /\ hist' = IF PR = 1 THEN hist ELSE [hist EXCEPT !.eNoop = @ + 1]
    /\ UNCHANGED <<mpc, primask, button, extiRegs, timRegs, nvicCfg, nvicPend, stack,
                   etmp, eLog, timCtx>>
    /\ UNCHANGED <<mainArgs, ODR, delayVars, tickVars, ledVars>>

\* EXTI->PR = (1 << BUTTON_PIN);
EXTI0_Ack ==
    /\ CanStep("EXTI0") /\ epc = "e_ack"
    /\ PR' = 0
    /\ epc' = EXTI0_After("e_ack") /\ eLog' = Append(eLog, "ack")
    /\ UNCHANGED <<mpc, primask, button, IMR, RTSR, FTSR, timRegs, nvicCfg, stack,
                   etmp, timCtx, hist>>
    /\ NvicLatch("none")
    /\ UNCHANGED <<mainArgs, ODR, delayVars, tickVars, ledVars>>

\* EXTI->IMR &= ~(1 << BUTTON_PIN);
EXTI0_Mask ==
    /\ CanStep("EXTI0")
    /\ \/ /\ epc = "e_mask_ld"
          /\ etmp' = IMR /\ epc' = EXTI0_After("e_mask_ld")
          /\ UNCHANGED <<IMR, eLog>>
       \/ /\ epc = "e_mask_st"
          /\ IMR' = 0 /\ epc' = EXTI0_After("e_mask_st")
          /\ eLog' = Append(eLog, "mask")
          /\ UNCHANGED etmp
    /\ UNCHANGED <<mpc, primask, button, RTSR, FTSR, PR, timRegs, nvicCfg, stack,
                   timCtx, hist>>
    /\ NvicLatch("none")
    /\ UNCHANGED <<mainArgs, ODR, delayVars, tickVars, ledVars>>

\* TIM7->CNT = 0;
EXTI0_ResetCounter ==
    /\ CanStep("EXTI0") /\ epc = "e_cnt"
    /\ CNT' = 0
    /\ epc' = EXTI0_After("e_cnt") /\ eLog' = Append(eLog, "reset")
    /\ UNCHANGED <<mpc, primask, button, extiRegs, TIM7EN, CEN, OPM, UIE, UIF, ARR, PSC,
                   nvicCfg, nvicPend, stack, etmp, timCtx, hist>>
    /\ UNCHANGED <<mainArgs, ODR, delayVars, tickVars, ledVars>>

\* TIM7->CR1 |= TIM_CR1_CEN;   (etmp holds the OPM bit that was loaded)
EXTI0_Start ==
    /\ CanStep("EXTI0")
    /\ \/ /\ epc = "e_cen_ld"
          /\ etmp' = OPM /\ epc' = EXTI0_After("e_cen_ld")
          /\ UNCHANGED <<CEN, OPM, eLog, hist>>
       \/ /\ epc = "e_cen_st"
          /\ CEN' = 1 /\ OPM' = etmp /\ epc' = EXTI0_After("e_cen_st")
          /\ eLog' = Append(eLog, "start")
          /\ hist' = [hist EXCEPT !.starts = @ + 1,
                                  !.runs = IF CEN = 0 THEN @ + 1 ELSE @]
          /\ UNCHANGED etmp
    /\ UNCHANGED <<mpc, primask, button, extiRegs, TIM7EN, UIE, UIF, CNT, ARR, PSC,
                   nvicCfg, nvicPend, stack, timCtx>>
    /\ UNCHANGED <<mainArgs, ODR, delayVars, tickVars, ledVars>>

\* return from the handler
EXTI0_Return ==
    /\ CanStep("EXTI0") /\ epc = "e_ret"
    /\ stack' = Pop /\ epc' = "idle"
    /\ UNCHANGED <<mpc, primask, button, extiRegs, timRegs, nvicCfg, etmp, eLog,
                   timCtx, hist>>
    /\ NvicLatch("none")
    /\ UNCHANGED <<mainArgs, ODR, delayVars, tickVars, ledVars>>

(***************************************************************************)
(* TIM7_IRQHandler and BSP_Button_Callback                                 *)
(***************************************************************************)
\* BSP_Button_Read(): the level of the pin
BSP_Button_Read == IF button # 0 THEN 1 ELSE 0

\* variant: the handler does not test the flag
TIM7_Check_NoTest ==
    /\ CanStep("TIM7") /\ tpc = "t_chk"
    /\ tpc' = "t_sr_ld"
    /\ hist' = IF UIF = 1 THEN [hist EXCEPT !.handled = @ + 1]
                ELSE [hist EXCEPT !.tNoop = @ + 1]
    /\ UNCHANGED <<mpc, primask, button, extiRegs, timRegs, nvicCfg, nvicPend, stack,
                   ttmp, tLog, extiCtx>>
    /\ UNCHANGED <<mainArgs, ODR, delayVars, tickVars, ledVars>>

\* if (TIM7->SR & TIM_SR_UIF)
TIM7_Check ==
    /\ CanStep("TIM7") /\ tpc = "t_chk"
    /\ tpc' = IF UIF = 1 THEN "t_sr_ld" ELSE "t_ret"
    /\ hist' = IF UIF = 1 THEN [hist EXCEPT !.handled = @ + 1]
                ELSE [hist EXCEPT !.tNoop = @ + 1]
    /\ UNCHANGED <<mpc, primask, button, extiRegs, timRegs, nvicCfg, nvicPend, stack,
                   ttmp, tLog, extiCtx>>
    /\ UNCHANGED <<mainArgs, ODR, delayVars, tickVars, ledVars>>

\* TIM7->SR &= ~TIM_SR_UIF;   (UIF is cleared by writing 0)
TIM7_ClearFlag ==
    /\ CanStep("TIM7")
    /\ \/ /\ tpc = "t_sr_ld"
          /\ ttmp' = UIF /\ tpc' = "t_sr_st"
          /\ UNCHANGED <<UIF, tLog>>
       \/ /\ tpc = "t_sr_st"
          /\ UIF' = 0 /\ tpc' = "t_imr_ld"
          /\ tLog' = Append(tLog, "clear")
          /\ UNCHANGED ttmp
    /\ UNCHANGED <<mpc, primask, button, extiRegs, TIM7EN, CEN, OPM, UIE, CNT, ARR, PSC,
                   nvicCfg, stack, extiCtx, hist>>
    /\ NvicLatch("none")
    /\ UNCHANGED <<mainArgs, ODR, delayVars, tickVars, ledVars>>

\* variant: the statement toggles the bit instead of setting it
TIM7_Unmask_Toggle ==
    /\ CanStep("TIM7")
    /\ \/ /\ tpc = "t_imr_ld"
          /\ ttmp' = IMR /\ tpc' = "t_imr_st"
          /\ UNCHANGED <<IMR, tLog>>
       \/ /\ tpc = "t_imr_st"
          /\ IMR' = 1 - ttmp /\ tpc' = "t_read"
          /\ tLog' = Append(tLog, "unmask")
          /\ UNCHANGED ttmp
    /\ UNCHANGED <<mpc, primask, button, RTSR, FTSR, PR, timRegs, nvicCfg, stack,
                   extiCtx, hist>>
    /\ NvicLatch("none")
    /\ UNCHANGED <<mainArgs, ODR, delayVars, tickVars, ledVars>>

\* variant: the store writes back the loaded value, the OR with the bit is lost
TIM7_Unmask_Lost ==
    /\ CanStep("TIM7")
    /\ \/ /\ tpc = "t_imr_ld"
          /\ ttmp' = IMR /\ tpc' = "t_imr_st"
          /\ UNCHANGED <<IMR, tLog>>
       \/ /\ tpc = "t_imr_st"
          /\ IMR' = ttmp /\ tpc' = "t_read"
          /\ tLog' = Append(tLog, "unmask")
          /\ UNCHANGED ttmp
    /\ UNCHANGED <<mpc, primask, button, RTSR, FTSR, PR, timRegs, nvicCfg, stack,
                   extiCtx, hist>>
    /\ NvicLatch("none")
    /\ UNCHANGED <<mainArgs, ODR, delayVars, tickVars, ledVars>>

\* EXTI->IMR |= (1 << BUTTON_PIN);
TIM7_Unmask ==
    /\ CanStep("TIM7")
    /\ \/ /\ tpc = "t_imr_ld"
          /\ ttmp' = IMR /\ tpc' = "t_imr_st"
          /\ UNCHANGED <<IMR, tLog>>
       \/ /\ tpc = "t_imr_st"
          /\ IMR' = 1 /\ tpc' = "t_read"
          /\ tLog' = Append(tLog, "unmask")
          /\ UNCHANGED ttmp
    /\ UNCHANGED <<mpc, primask, button, RTSR, FTSR, PR, timRegs, nvicCfg, stack,
                   extiCtx, hist>>
    /\ NvicLatch("none")
    /\ UNCHANGED <<mainArgs, ODR, delayVars, tickVars, ledVars>>

\* variant: the callback is called whatever the button reads
TIM7_Sample_Always ==
    /\ CanStep("TIM7") /\ tpc = "t_read"
    /\ tpc' = "t_call"
    /\ tLog' = Append(tLog, IF BSP_Button_Read = 1 THEN "read1" ELSE "read0")
    /\ hist' = [hist EXCEPT !.reads = @ + 1,
                            !.pressed = @ + BSP_Button_Read]
    /\ UNCHANGED <<mpc, primask, button, extiRegs, timRegs, nvicCfg, nvicPend, stack,
                   ttmp, extiCtx>>
    /\ UNCHANGED <<mainArgs, ODR, delayVars, tickVars, ledVars>>

\* if (BSP_Button_Read())
TIM7_Sample ==
    /\ CanStep("TIM7") /\ tpc = "t_read"
    /\ tpc' = IF BSP_Button_Read = 1 THEN "t_call" ELSE "t_ret"
    /\ tLog' = Append(tLog, IF BSP_Button_Read = 1 THEN "read1" ELSE "read0")
    /\ hist' = [hist EXCEPT !.reads = @ + 1,
                            !.pressed = @ + BSP_Button_Read]
    /\ UNCHANGED <<mpc, primask, button, extiRegs, timRegs, nvicCfg, nvicPend, stack,
                   ttmp, extiCtx>>
    /\ UNCHANGED <<mainArgs, ODR, delayVars, tickVars, ledVars>>

\* BSP_Button_Callback(): the application's definition in main.c, which replaces
\* the weak one of the driver: the call, then one BSP_LED_On per step.  It
\* writes GPIOD only.
BSP_Button_Callback ==
    /\ CanStep("TIM7")
    /\ \/ /\ tpc = "t_call" /\ tpc' = "cb_green"
          /\ tLog' = Append(tLog, "call")
          /\ Bump("calls")
          /\ UNCHANGED ODR
       \/ /\ tpc = "cb_green" /\ tpc' = "cb_orange"
          /\ ODR' = BSP_LED_On(ODR, LED_GREEN)
          /\ UNCHANGED <<tLog, hist>>
       \/ /\ tpc = "cb_orange" /\ tpc' = "cb_red"
          /\ ODR' = BSP_LED_On(ODR, LED_ORANGE)
          /\ UNCHANGED <<tLog, hist>>
       \/ /\ tpc = "cb_red" /\ tpc' = "cb_blue"
          /\ ODR' = BSP_LED_On(ODR, LED_RED)
          /\ UNCHANGED <<tLog, hist>>
       \/ /\ tpc = "cb_blue" /\ tpc' = "t_ret"
          /\ ODR' = BSP_LED_On(ODR, LED_BLUE)
          /\ UNCHANGED <<tLog, hist>>
    /\ UNCHANGED <<mpc, primask, button, extiRegs, timRegs, nvicCfg, nvicPend, stack,
                   ttmp, extiCtx>>
    /\ UNCHANGED <<mainArgs, delayVars, tickVars, ledVars>>

\* the callback is executing
InCallback == tpc \in {"cb_green", "cb_orange", "cb_red", "cb_blue"}

\* return from the handler
TIM7_Return ==
    /\ CanStep("TIM7") /\ tpc = "t_ret"
    /\ stack' = Pop /\ tpc' = "idle"
    /\ UNCHANGED <<mpc, primask, button, extiRegs, timRegs, nvicCfg, ttmp, tLog,
                   extiCtx, hist>>
    /\ NvicLatch("none")
    /\ UNCHANGED <<mainArgs, ODR, delayVars, tickVars, ledVars>>

(***************************************************************************)
(* Specification                                                           *)
(***************************************************************************)
Next ==
    \/ BSP_Button_Init
    \/ BSP_Button_EXTI_Init
    \/ BSP_Button_NVIC_Init
    \/ BSP_Button_DebounceTimer_Init
    \/ EnableIrq
    \/ ButtonPress
    \/ ButtonRelease
    \/ TimerTick
    \/ EXTI0_Entry
    \/ EXTI0_Check
    \/ EXTI0_Ack
    \/ EXTI0_Mask
    \/ EXTI0_ResetCounter
    \/ EXTI0_Start
    \/ EXTI0_Return
    \/ TIM7_Entry
    \/ TIM7_Check
    \/ TIM7_ClearFlag
    \/ TIM7_Unmask
    \/ TIM7_Sample
    \/ BSP_Button_Callback
    \/ TIM7_Return

Spec == Init /\ [][Next]_vars

\* the values a caller may pass as the mode
Modes == 0..MaxMode

\* startup with any mode and with one or more calls of BSP_Button_Init
StartupInit ==
    /\ Reset
    /\ Mode \in Modes /\ initCalls \in 1..MaxInitCalls
    /\ DelayOff /\ TickOff /\ LedOff

StartupSpec == StartupInit /\ [][Next]_vars

\* the button and the TIM7 counter
Environment == ButtonPress \/ ButtonRelease \/ TimerTick

\* exception entry and the two handlers
Handlers ==
    \/ EXTI0_Entry \/ EXTI0_Check \/ EXTI0_Ack \/ EXTI0_Mask
    \/ EXTI0_ResetCounter \/ EXTI0_Start \/ EXTI0_Return
    \/ TIM7_Entry \/ TIM7_Check \/ TIM7_ClearFlag \/ TIM7_Unmask
    \/ TIM7_Sample \/ BSP_Button_Callback \/ TIM7_Return

\* The handlers invoked in any state of the flags: the machine is configured
\* and main() is in its loop; the mask bit, the pending flag, the timer enable
\* and the update flag have any value, the counter is at either end of its
\* range, and either interrupt may be pending in the NVIC whatever its flag
\* (the NVIC can hold an interrupt pending after its flag has been cleared,
\* or be set pending by software).  The button has one rising edge left.
InvokeInit ==
    /\ Mode = ModeArg /\ initCalls = 0
    /\ mpc = "m_loop" /\ primask = FALSE
    /\ button \in {0, 1}
    /\ IMR \in {0, 1} /\ PR \in {0, 1} /\ RTSR = 1 /\ FTSR = 0
    /\ TIM7EN = 1 /\ CEN \in {0, 1} /\ OPM = 1 /\ UIE = 1 /\ UIF \in {0, 1}
    /\ CNT \in {0, BUTTON_DEBOUNCE_MS} /\ ARR = BUTTON_DEBOUNCE_MS
    /\ PSC = ((SystemCoreClock \div 1000) - 1) % (2 ^ 16)
    /\ nvicEn = [i \in IRQs |-> TRUE]
    /\ nvicPend \in [IRQs -> BOOLEAN]
    /\ nvicPrio = [i \in IRQs |->
          NVIC_EncodePriority(NVIC_GetPriorityGrouping,
                              IF i = "EXTI0" THEN EXTI0_PREEMPT ELSE TIM7_PREEMPT, 0)]
    /\ stack = <<>>
    /\ epc = "idle" /\ etmp = 0
    /\ tpc = "idle" /\ ttmp = 0
    /\ ODR = {}
    /\ eLog = <<>> /\ tLog = <<>>
    /\ hist = [edges |-> MaxEdges - 1, edgesUnmasked |-> 0, edgesInHandler |-> 0,
               starts |-> 0, runs |-> 0, expires |-> 0,
               handled |-> 0, reads |-> 0, pressed |-> 0, calls |-> 0,
               inits |-> 1, edgesAtClear |-> 0, eNoop |-> 0, tNoop |-> 0]
    /\ DelayOff /\ TickOff /\ LedOff

InvokeNext == Environment \/ Handlers

InvokeSpec == InvokeInit /\ [][InvokeNext]_vars

\* the processor executes: main(), exception entry, the handlers
Cpu ==
    \/ BSP_Button_Init \/ BSP_Button_EXTI_Init \/ BSP_Button_NVIC_Init
    \/ BSP_Button_DebounceTimer_Init \/ EnableIrq
    \/ EXTI0_Entry \/ EXTI0_Check \/ EXTI0_Ack \/ EXTI0_Mask
    \/ EXTI0_ResetCounter \/ EXTI0_Start \/ EXTI0_Return
    \/ TIM7_Entry \/ TIM7_Check \/ TIM7_ClearFlag \/ TIM7_Unmask
    \/ TIM7_Sample \/ BSP_Button_Callback \/ TIM7_Return

\* the processor never stops executing and an enabled counter keeps counting;
\* nothing is assumed of the button
FairSpec == Spec /\ WF_vars(Cpu) /\ WF_vars(TimerTick)

(***************************************************************************)
(* Delay_Init and Delay_us (delay.c) with TIM6.  TIM6 counts as TIM7 does; *)
(* writing UG to TIM6->EGR generates an update event: the counter restarts *)
(* from 0 and UIF is set.  Nothing but Delay_Init and Delay_us writes TIM6.*)
(***************************************************************************)
\* the button machine, which the delay functions do not touch
buttonVars == <<Mode, initCalls, mpc, primask, button, IMR, RTSR, FTSR, PR, TIM7EN,
                CEN, OPM, UIE, UIF, CNT, ARR, PSC, nvicEn, nvicPend, nvicPrio, stack,
                epc, etmp, tpc, ttmp, ODR, eLog, tLog, hist>>

\* the arguments the caller passes: 0, small delays, the largest delay, and
\* values above the 16-bit range
UsArgs == (0..MaxUs) \cup {65535, 65536, 65536 + MaxUs}

\* Delay_Init, one statement per step
Delay_Init ==
    /\ \/ /\ dpc = "d_init"     /\ dpc' = "d_init_psc"
          /\ TIM6' = [TIM6 EXCEPT !.EN = 1]
       \/ /\ dpc = "d_init_psc" /\ dpc' = "d_init_cr1"
          /\ TIM6' = [TIM6 EXCEPT !.PSC = 84 - 1]
       \/ /\ dpc = "d_init_cr1" /\ dpc' = "d_idle"
          /\ TIM6' = [TIM6 EXCEPT !.OPM = 1, !.CEN = 0]
    /\ UNCHANGED <<us, last_delay_us, dhist, buttonVars, tickVars, ledVars>>

\* the caller calls Delay_us(us)
Delay_Call ==
    /\ dpc = "d_idle"
    /\ \E u \in UsArgs : us' = u
    /\ dpc' = "d_chk"
    /\ dhist' = [dhist EXCEPT !.called = TRUE, !.atCall = <<TIM6, last_delay_us>>,
                              !.startedAt = -1, !.seenUIF = FALSE, !.wroteARR = FALSE]
    /\ UNCHANGED <<last_delay_us, TIM6, buttonVars, tickVars, ledVars>>

\* variant: the range check lets every non-zero argument pass
Delay_us_InRange_NoMax(u) == u # 0

\* if (us == 0 || us > 0xFFFF) return;   -- the arguments that are not ignored
Delay_us_InRange(u) == ~(u = 0 \/ u > 65535)

\* Delay_us, one statement per step
Delay_us ==
    /\ \/ /\ dpc = "d_chk"
          /\ dpc' = IF Delay_us_InRange(us) THEN "d_cmp" ELSE "d_idle"
          /\ dhist' = IF Delay_us_InRange(us) THEN [dhist EXCEPT !.accepted = us]
                      ELSE dhist
          /\ UNCHANGED <<last_delay_us, TIM6>>
       \/ /\ dpc = "d_cmp"
          /\ dpc' = IF us # last_delay_us THEN "d_arr" ELSE "d_cnt"
          /\ UNCHANGED <<last_delay_us, TIM6, dhist>>
       \/ /\ dpc = "d_arr" /\ dpc' = "d_egr"
          /\ TIM6' = [TIM6 EXCEPT !.ARR = us % (2 ^ 16)]
          /\ dhist' = [dhist EXCEPT !.wroteARR = TRUE]
          /\ UNCHANGED last_delay_us
       \/ /\ dpc = "d_egr" /\ dpc' = "d_last"
          /\ TIM6' = [TIM6 EXCEPT !.CNT = 0, !.UIF = 1,
                                  !.CEN = IF TIM6.OPM = 1 THEN 0 ELSE @]
          /\ UNCHANGED <<last_delay_us, dhist>>
       \/ /\ dpc = "d_last" /\ dpc' = "d_cnt"
          /\ last_delay_us' = us
          /\ UNCHANGED <<TIM6, dhist>>
       \/ /\ dpc = "d_cnt" /\ dpc' = "d_sr"
          /\ TIM6' = [TIM6 EXCEPT !.CNT = 0]
          /\ UNCHANGED <<last_delay_us, dhist>>
       \/ /\ dpc = "d_sr" /\ dpc' = "d_cen"
          /\ TIM6' = [TIM6 EXCEPT !.UIF = 0]
          /\ UNCHANGED <<last_delay_us, dhist>>
       \/ /\ dpc = "d_cen" /\ dpc' = "d_wait"
          /\ TIM6' = [TIM6 EXCEPT !.CEN = 1]
          /\ dhist' = [dhist EXCEPT !.startedAt = TIM6.CNT]
          /\ UNCHANGED last_delay_us
       \/ /\ dpc = "d_wait" /\ TIM6.UIF = 1 /\ dpc' = "d_clr"
          /\ dhist' = [dhist EXCEPT !.seenUIF = TRUE]
          /\ UNCHANGED <<last_delay_us, TIM6>>
       \/ /\ dpc = "d_clr" /\ dpc' = "d_idle"
          /\ TIM6' = [TIM6 EXCEPT !.UIF = 0]
          /\ UNCHANGED <<last_delay_us, dhist>>
    /\ UNCHANGED <<us, buttonVars, tickVars, ledVars>>

\* one tick of the enabled TIM6 counter; at ARR it overflows (update event)
TIM6_Tick ==
    /\ TIM6.EN = 1 /\ TIM6.CEN = 1
    /\ TIM6' = IF TIM6.CNT < TIM6.ARR
               THEN [TIM6 EXCEPT !.CNT = @ + 1]
               ELSE [TIM6 EXCEPT !.CNT = 0, !.UIF = 1,
                                 !.CEN = IF TIM6.OPM = 1 THEN 0 ELSE 1]
    /\ UNCHANGED <<dpc, us, last_delay_us, dhist, buttonVars, tickVars, ledVars>>

\* the program starts at Delay_Init; the button machine stays in reset
DelayInit ==
    /\ Reset /\ Mode = ModeArg /\ initCalls = 1
    /\ TickOff /\ LedOff
    /\ dpc = "d_init" /\ us = 0 /\ last_delay_us = 0
    /\ TIM6 = TIM6_Reset
    /\ dhist = DelayHist0

DelayNext == Delay_Init \/ Delay_Call \/ Delay_us \/ TIM6_Tick

DelaySpec == DelayInit /\ [][DelayNext]_vars

(***************************************************************************)
(* SysTick_delay_ms and SysTick_Handler (systick.c)                        *)
(***************************************************************************)
\* values of systick_ms when the call is made: just after start-up, just
\* below a carry into the high half, just below the wrap-around to zero
StartTicks == {U32(0), <<0, 65535>>, <<65535, 65534>>, <<65535, 65535>>}

\* SysTick_Handler invocations the model follows in each part of a call
MaxTicks == MaxMs + 2

\* variant: the loop waits until systick_ms reaches start + ms
SysTick_Waiting_Deadline(now, st, m) == U32_Lt(now, U32_Add(st, m))

\* the loop condition (systick_ms - start) < ms, in uint32_t arithmetic
SysTick_Waiting(now, st, m) == U32_Lt(U32_Sub(now, st), m)

\* the caller calls SysTick_delay_ms(ms)
SysTick_Call ==
    /\ spc = "s_idle"
    /\ \E m \in 0..MaxMs : ms' = U32(m)
    /\ spc' = "s_start" /\ elapsed' = 0
    /\ UNCHANGED <<start, systick_ms, woken, buttonVars, delayVars, ledVars>>

\* SysTick_delay_ms, one statement per step; __WFI() suspends the processor
\* until the next interrupt has been taken
SysTick_delay_ms ==
    /\ \/ /\ spc = "s_start" /\ spc' = "s_loop"
          /\ start' = systick_ms
          /\ UNCHANGED woken
       \/ /\ spc = "s_loop"
          /\ spc' = IF SysTick_Waiting(systick_ms, start, ms) THEN "s_wfi" ELSE "s_done"
          /\ UNCHANGED <<start, woken>>
       \/ /\ spc = "s_wfi" /\ spc' = "s_sleep"
          /\ woken' = FALSE
          /\ UNCHANGED start
       \/ /\ spc = "s_sleep" /\ woken /\ spc' = "s_loop"
          /\ UNCHANGED <<start, woken>>
    /\ UNCHANGED <<ms, systick_ms, elapsed, buttonVars, delayVars, ledVars>>

\* the invocations of SysTick_Handler the model follows: MaxTicks before
\* SysTick_delay_ms reads systick_ms, then until the difference the loop
\* computes has reached MaxTicks, and always the one that ends a sleep; none
\* after the call has returned
TickBudget ==
    IF spc = "s_start" THEN elapsed < MaxTicks
    ELSE \/ /\ spc \in {"s_loop", "s_wfi", "s_sleep"}
            /\ U32_Lt(U32_Sub(systick_ms, start), U32(MaxTicks))
         \/ spc = "s_sleep" /\ ~woken

\* SysTick_Handler: systick_ms++
SysTick_Handler ==
    /\ TickBudget
    /\ systick_ms' = U32_Inc(systick_ms)
    /\ elapsed' = elapsed + 1
    /\ woken' = TRUE
    /\ UNCHANGED <<spc, ms, start, buttonVars, delayVars, ledVars>>

TickInit ==
    /\ Reset /\ Mode = ModeArg /\ initCalls = 1
    /\ DelayOff /\ LedOff
    /\ spc = "s_idle" /\ ms = U32(0) /\ start = U32(0)
    /\ systick_ms \in StartTicks
    /\ woken = FALSE /\ elapsed = 0

TickNext == SysTick_Call \/ SysTick_delay_ms \/ SysTick_Handler

TickSpec == TickInit /\ [][TickNext]_vars

\* the processor keeps executing and SysTick_Handler keeps being invoked
TickFairSpec ==
    TickSpec /\ WF_vars(SysTick_Call \/ SysTick_delay_ms) /\ WF_vars(SysTick_Handler)

(***************************************************************************)
(* The LED functions: BSP_LED_On, BSP_LED_Off, BSP_LED_Toggle called by    *)
(* main(), one after the other, with any index                             *)
(***************************************************************************)
\* a write of w to GPIOD->BSRR: bits 0..15 set, bits 16..31 reset the pins of
\* ODR; the set wins when both are written
BSRR_Write(odr, w) ==
    (odr \ {b - 16 : b \in {x \in w : x >= 16}}) \cup {b \in w : b < 16}

\* a ^ b on registers
Xor(a, b) == (a \ b) \cup (b \ a)

BSP_LED_Off_NoShift(odr, n) ==
    IF n < LEDn THEN BSRR_Write(odr, Shl({0}, LED_PIN[n + 1])) ELSE odr

\* BSP_LED_Off(led): BSRR = 1UL << (LED_PIN[led] + 16U)
BSP_LED_Off(odr, n) ==
    IF n < LEDn THEN BSRR_Write(odr, Shl({0}, LED_PIN[n + 1] + 16)) ELSE odr

\* GPIOD->BSRR is write-only: a read returns 0
BSRR_Read == {}

\* BSP_LED_On(led) of 01-LED_Blinky_SysTick: BSRR |= 1UL << led_pin[led]
BSP_LED_On_Blinky(odr, n) ==
    IF n < LEDn THEN BSRR_Write(odr, BSRR_Read \cup Shl({0}, LED_PIN[n + 1])) ELSE odr

\* BSP_LED_Off(led) of 01-LED_Blinky_SysTick: BSRR |= 1UL << (led_pin[led] + 16)
BSP_LED_Off_Blinky(odr, n) ==
    IF n < LEDn THEN BSRR_Write(odr, BSRR_Read \cup Shl({0}, LED_PIN[n + 1] + 16))
    ELSE odr

\* BSP_LED_Toggle(led): ODR ^= 1UL << LED_PIN[led]
BSP_LED_Toggle(odr, n) ==
    IF n < LEDn THEN Xor(odr, Shl({0}, LED_PIN[n + 1])) ELSE odr

\* the pins of GPIOD->ODR the model follows: the four LEDs and a pin next to them
LedPortPins == {11} \cup {LED_PIN[k] : k \in 1..LEDn}

LedOps == {"on", "off", "toggle"}

\* what the LED functions leave alone: the processor, EXTI, TIM7, the NVIC
coreVars == <<mainArgs, mpc, primask, button, extiRegs, timRegs, nvicCfg, nvicPend,
              stack, extiCtx, timCtx, hist>>

\* main() calls one of the three functions
LED_Call ==
    /\ lpc = "l_idle"
    /\ \E op \in LedOps, n \in 0..MaxLed :
          /\ led' = n
          /\ lpc' = "l_" \o op
          /\ lhist' = [lhist EXCEPT !.op = op, !.before = ODR,
                                    !.prevOp = lhist.op, !.prevLed = led,
                                    !.prevBefore = lhist.before]
    /\ UNCHANGED <<ODR, li, ltmp, GPIOD>>
    /\ UNCHANGED <<coreVars, delayVars, tickVars>>

\* BSP_LED_On, in either project: the test of the index and the write to BSRR
LED_On ==
    /\ lpc = "l_on" /\ lpc' = "l_ret"
    /\ ODR' \in {BSP_LED_On(ODR, led), BSP_LED_On_Blinky(ODR, led)}
    /\ UNCHANGED <<led, li, ltmp, GPIOD, lhist>>
    /\ UNCHANGED <<coreVars, delayVars, tickVars>>

\* BSP_LED_Off, in either project: the test of the index and the write to BSRR
LED_Off ==
    /\ lpc = "l_off" /\ lpc' = "l_ret"
    /\ ODR' \in {BSP_LED_Off(ODR, led), BSP_LED_Off_Blinky(ODR, led)}
    /\ UNCHANGED <<led, li, ltmp, GPIOD, lhist>>
    /\ UNCHANGED <<coreVars, delayVars, tickVars>>

\* BSP_LED_Toggle: the test of the index, the load of ODR, the store
LED_Toggle ==
    /\ \/ /\ lpc = "l_toggle"
          /\ lpc' = IF led < LEDn THEN "l_toggle_load" ELSE "l_ret"
          /\ UNCHANGED <<ODR, ltmp>>
       \/ /\ lpc = "l_toggle_load" /\ lpc' = "l_toggle_store"
          /\ ltmp' = ODR
          /\ UNCHANGED ODR
       \/ /\ lpc = "l_toggle_store" /\ lpc' = "l_ret"
          /\ ODR' = BSP_LED_Toggle(ltmp, led)
          /\ UNCHANGED ltmp
    /\ UNCHANGED <<led, li, GPIOD, lhist>>
    /\ UNCHANGED <<coreVars, delayVars, tickVars>>

\* the function returns to main()
LED_Return ==
    /\ lpc = "l_ret" /\ lpc' = "l_idle"
    /\ UNCHANGED <<ODR, led, li, ltmp, GPIOD, lhist>>
    /\ UNCHANGED <<coreVars, delayVars, tickVars>>

LedCore ==
    /\ ResetCore /\ Mode = ModeArg /\ initCalls = 1
    /\ DelayOff /\ TickOff

\* the port configured, any output state, main() between two calls
LedInit ==
    /\ LedCore
    /\ ODR \in SUBSET LedPortPins
    /\ lpc = "l_idle" /\ led = 0 /\ li = 0 /\ ltmp = {}
    /\ GPIOD = GPIOD_Ready
    /\ lhist = LedHist0

LedNext == LED_Call \/ LED_On \/ LED_Off \/ LED_Toggle \/ LED_Return

LedSpec == LedInit /\ [][LedNext]_vars

(***************************************************************************)
(* BSP_LED_Init (03-Button_EXTI), one statement per step, from any         *)
(* contents of the configuration registers of the LED port                 *)
(***************************************************************************)
\* contents a 32-bit register may hold before the call: all bits clear, all
\* set, the low bit or the high bit of every two-bit field set
RegValues == {{}, 0..31, {b \in 0..31 : b % 2 = 0}, {b \in 0..31 : b % 2 = 1}}

\* GPIOD->OTYPER: bits 16..31 are reserved and read 0
OtyperValues == {v \cap (0..15) : v \in RegValues}

BSP_LED_Init ==
    /\ \/ /\ lpc = "l_init" /\ lpc' = "l_for"
          /\ GPIOD' = [GPIOD EXCEPT !.EN = 1]
          /\ li' = 0
       \/ /\ lpc = "l_for"
          /\ lpc' = IF li < LEDn THEN "l_moder_clr" ELSE "l_done"
          /\ UNCHANGED <<GPIOD, li>>
       \/ /\ lpc = "l_moder_clr" /\ lpc' = "l_moder_set"
          /\ GPIOD' = [GPIOD EXCEPT
                         !.MODER = @ \ Shl({0, 1}, LED_PIN[li + 1] * 2)]
          /\ UNCHANGED li
       \/ /\ lpc = "l_moder_set" /\ lpc' = "l_otyper"
          /\ GPIOD' = [GPIOD EXCEPT
                         !.MODER = @ \cup Shl({0}, LED_PIN[li + 1] * 2)]
          /\ UNCHANGED li
       \/ /\ lpc = "l_otyper" /\ lpc' = "l_ospeedr"
          /\ GPIOD' = [GPIOD EXCEPT !.OTYPER = @ \ Shl({0}, LED_PIN[li + 1])]
          /\ UNCHANGED li
       \/ /\ lpc = "l_ospeedr" /\ lpc' = "l_for"
          /\ GPIOD' = [GPIOD EXCEPT !.OSPEEDR = @ \ Shl({0, 1}, LED_PIN[li + 1])]
          /\ li' = li + 1
    /\ UNCHANGED <<ODR, led, ltmp, lhist>>
    /\ UNCHANGED <<coreVars, delayVars, tickVars>>

\* main() is about to call BSP_LED_Init
LedCfgInit ==
    /\ LedCore
    /\ ODR = {}
    /\ lpc = "l_init" /\ led = 0 /\ li = 0 /\ ltmp = {}
    /\ GPIOD \in [EN : {0, 1}, MODER : RegValues, OTYPER : OtyperValues,
                  OSPEEDR : RegValues]
    /\ lhist = [LedHist0 EXCEPT !.atInit = GPIOD]

LedCfgNext == BSP_LED_Init

LedCfgSpec == LedCfgInit /\ [][LedCfgNext]_vars

(***************************************************************************)
(* States of the debounce machine, read from the registers                 *)
(***************************************************************************)
\* line unmasked, timer idle
Armed == IMR = 1 /\ CEN = 0

\* line masked, timer running or its expiration not yet handled
Debouncing == IMR = 0 /\ (CEN = 1 \/ UIF = 1)

\* no handler is active and none is about to be entered
Quiet == stack = <<>> /\ Preempting = {}

\* the machine is at rest: nothing runs, nothing is pending
AtRest == Initialised /\ Quiet /\ CEN = 0 /\ UIF = 0

IsPrefix(s, t) == Len(s) <= Len(t) /\ s = SubSeq(t, 1, Len(s))

Has(log, x) == \E k \in 1..Len(log) : log[k] = x

(***************************************************************************)
(* Claims                                                                  *)
(***************************************************************************)

\* C1: every expiration TIM7_IRQHandler handles takes one sample of the
\* button; BSP_Button_Callback has been invoked once for each sample that read
\* asserted and for no other reason (never for a sample that read deasserted,
\* never from EXTI0_IRQHandler or the initialisation): the number of callback
\* invocations equals the number of asserted samples (less the invocation the
\* handler is about to make), and a handler invocation that is about to return
\* has done nothing, or cleared-unmasked-read 0, or cleared-unmasked-read 1-called.
C1_CallbackIffAsserted ==
    /\ hist.calls + (IF tpc = "t_call" THEN 1 ELSE 0) = hist.pressed
    /\ hist.reads
         + (IF tpc \in {"t_sr_ld", "t_sr_st", "t_imr_ld", "t_imr_st", "t_read"}
            THEN 1 ELSE 0) = hist.handled
    /\ tpc = "t_ret" =>
         tLog \in {<<>>, <<"clear", "unmask", "read0">>,
                   <<"clear", "unmask", "read1", "call">>}

\* C1 witness: both outcomes have happened: an expiration whose sample read
\* asserted and was followed by the callback, and one whose sample read deasserted
C1_Witness ==
    /\ tpc = "idle" /\ hist.calls >= 1 /\ hist.reads > hist.pressed

\* C2 (as claimed): once initialised, whenever TIM7 is running (CEN set) the
\* button's EXTI line is masked (IMR bit clear)
C2_RunningImpliesMasked ==
    Initialised => (CEN = 1 => IMR = 0)

\* C3 (as claimed): TIM7_IRQHandler unmasks the line before it samples the
\* input, and when the handler has finished handling an expiration the line is
\* unmasked, whatever the sample read
C3_UnmaskedAtCompletion ==
    /\ (Has(tLog, "read0") \/ Has(tLog, "read1")) =>
          IsPrefix(<<"clear", "unmask">>, tLog)
    /\ (tpc = "t_ret" /\ tLog # <<>>) => IMR = 1

\* C4 (as claimed): an edge handled while armed masks the line and starts one
\* timer run, and an edge that arrives while the line is masked has no effect:
\* timer runs and expirations are caused only by edges that arrived while the
\* line was unmasked, one run at most for each
C4_MaskedEdgesHaveNoEffect ==
    /\ (epc = "e_ret" /\ eLog # <<>>) => eLog = <<"ack", "mask", "reset", "start">>
    /\ hist.runs <= hist.edgesUnmasked
    /\ hist.expires <= hist.edgesUnmasked

C6_AckThenMaskFirst ==
    IsPrefix(eLog, <<"ack", "mask", "reset", "start">>)

\* C6 witness: an invocation has done all four and is about to return
C6_Witness ==
    epc = "e_ret" /\ eLog = <<"ack", "mask", "reset", "start">>

\* C7 (as claimed): whenever the line goes from masked to unmasked, no pending
\* indication is left standing
C7_AckBeforeUnmask ==
    [][(IMR = 0 /\ IMR' = 1) => PR' = 0]_vars

\* C8 (as claimed): the two priorities differ, TIM7 is the more urgent (its
\* preemption priority value is the lower one), and EXTI0_IRQHandler never
\* preempts TIM7_IRQHandler
C8_TimerPriorityHigher ==
    /\ Initialised => GroupPriority("TIM7") < GroupPriority("EXTI0")
    /\ stack # <<"TIM7", "EXTI0">>

\* C9 (as claimed): of two edges the second of which arrives while
\* EXTI0_IRQHandler is active, the second is ignored: the timer is started
\* once and expires once
C9_SecondEdgeIgnored ==
    (hist.edges = 2 /\ hist.edgesInHandler = 1) =>
        (hist.starts <= 1 /\ hist.expires <= 1)

\* C10 (as claimed): every start of the timer by EXTI0_IRQHandler yields one
\* expiration and every expiration is handled once by TIM7_IRQHandler, so at
\* rest the three counts agree; no expiration without a start, no callback
\* without a handled expiration
C10_OneExpirationPerStart ==
    /\ AtRest => (hist.starts = hist.expires /\ hist.handled = hist.expires)
    /\ hist.expires <= hist.starts
    /\ hist.calls <= hist.handled

\* the fields of the debounce controller: mask bit, pending flag, timer
\* enable, timer counter, timer update flag
ControllerState == <<IMR, PR, CEN, CNT, UIF>>

\* the controller as the configuration leaves it: unmasked, nothing pending,
\* timer stopped at zero, no expiration flagged
ArmedState == <<1, 0, 0, 0, 0>>

C13_NoCancelNoSampleInRun ==
    /\ [][(CEN = 1 /\ CEN' = 0) => hist'.expires = hist.expires + 1]_vars
    /\ [][hist'.reads > hist.reads => CEN = 0]_vars
    /\ [](hist.calls <= hist.pressed)

\* C14 (as claimed): the line is unmasked at the moment the callback begins,
\* and an edge that arrives while the callback executes with the line
\* unmasked is notified to EXTI0_IRQHandler (pending or being handled)
C14_CallbackSeesUnmaskedLine ==
    /\ [][(tpc = "t_call" /\ tpc' = "cb_green") => IMR = 1]_vars
    /\ []((InCallback /\ PR = 1 /\ IMR = 1) => (nvicPend["EXTI0"] \/ Active("EXTI0")))

\* APB1 prescaler set by System_Clock_Config (RCC_CFGR_PPRE1_DIV4)
APB1_DIV == 4

\* the clock that TIM7 counts: the APB1 clock, doubled when APB1 is divided
TIM7_Clock ==
    IF APB1_DIV = 1 THEN SystemCoreClock ELSE 2 * (SystemCoreClock \div APB1_DIV)

\* milliseconds from the start of TIM7 at CNT = 0 to its overflow, with the
\* prescaler register in effect
DebounceIntervalMs == ((ARR + 1) * (PSC + 1) * 1000) \div TIM7_Clock

\* C16 (as claimed): once the timer is configured, TIM7->PSC holds
\* (SystemCoreClock / 1000) - 1 without truncation, the counter ticks at
\* 1 kHz, and a run from start to expiration lasts BUTTON_DEBOUNCE_MS
\* milliseconds
C16_TwentyMilliseconds ==
    Initialised =>
        /\ PSC = (SystemCoreClock \div 1000) - 1
        /\ TIM7_Clock \div (PSC + 1) = 1000
        /\ DebounceIntervalMs = BUTTON_DEBOUNCE_MS

\* C18 (as claimed): when a handler stores the result of a read-modify-write,
\* the register still holds what the handler loaded: no other handler has
\* written it in between (IMR in both handlers, CR1 in EXTI0_IRQHandler, SR
\* in TIM7_IRQHandler)
C18_NoLostUpdate ==
    /\ tpc = "t_imr_st" => ttmp = IMR
    /\ epc = "e_mask_st" => etmp = IMR
    /\ epc = "e_cen_st" => etmp = OPM
    /\ tpc = "t_sr_st" => ttmp = UIF

\* EXTI, TIM7 and the NVIC as BSP_Button_Init(BUTTON_MODE_EXTI) configures them
ConfiguredState ==
    /\ IMR = 1 /\ RTSR = 1 /\ FTSR = 0
    /\ TIM7EN = 1 /\ OPM = 1 /\ UIE = 1
    /\ ARR = BUTTON_DEBOUNCE_MS
    /\ PSC = ((SystemCoreClock \div 1000) - 1) % (2 ^ 16)
    /\ nvicEn = [i \in IRQs |-> TRUE]
    /\ nvicPrio = [i \in IRQs |-> IF i = "EXTI0" THEN EXTI0_PREEMPT ELSE TIM7_PREEMPT]

\* EXTI, TIM7 and the NVIC as they are after reset
UnconfiguredState ==
    /\ extiRegs = <<0, 0, 0, 0>>
    /\ TIM7EN = 0 /\ CEN = 0 /\ OPM = 0 /\ UIE = 0 /\ UIF = 0 /\ CNT = 0
    /\ ARR = 65535 /\ PSC = 0
    /\ nvicEn = [i \in IRQs |-> FALSE]
    /\ nvicPrio = [i \in IRQs |-> 0]

C15_InvalidModeIsFatal ==
    /\ [](Mode \notin {BUTTON_MODE_GPIO, BUTTON_MODE_EXTI} =>
            (mpc \in {"m_init", "m_assert"} /\ UnconfiguredState /\ stack = <<>>))
    /\ [](Mode = BUTTON_MODE_GPIO => (mpc # "m_assert" /\ UnconfiguredState))
    /\ [](Mode = BUTTON_MODE_EXTI => mpc # "m_assert")
    /\ [][mpc = "m_assert" => mpc' = "m_assert"]_vars

\* C15 witness: the assertion has failed in the first of two calls, and the
\* button has been pressed since
C15_Witness ==
    mpc = "m_assert" /\ initCalls >= 1 /\ hist.edges >= 1

\* C17: a call Delay_us(us) with us = 0 or us > 65535 goes from the range
\* check straight back to the caller with TIM6 and last_delay_us as they were
\* at the call and without having started TIM6; a call with 1 <= us <= 65535
\* has, when it returns, started TIM6 at CNT = 0 with ARR = us, read UIF set
\* in its wait loop and left UIF clear and TIM6 stopped, and it wrote ARR
\* exactly if us differed from last_delay_us at the call; between calls ARR
\* and last_delay_us equal the last accepted argument
C17_DelayUsRangeAndReload ==
    /\ (dhist.called /\ (us = 0 \/ us > 65535)) =>
          /\ dpc \in {"d_chk", "d_idle"}
          /\ <<TIM6, last_delay_us>> = dhist.atCall
          /\ dhist.startedAt = -1
    /\ (dhist.called /\ us >= 1 /\ us <= 65535 /\ dpc = "d_idle") =>
          /\ dhist.startedAt = 0 /\ dhist.seenUIF
          /\ TIM6.UIF = 0 /\ TIM6.CEN = 0
          /\ TIM6.ARR = us /\ last_delay_us = us
          /\ dhist.wroteARR <=> (us # dhist.atCall[2])
    /\ dpc = "d_wait" => (TIM6.ARR = us /\ TIM6.CNT <= us)
    /\ (dhist.accepted # 0 /\ dpc \notin {"d_cmp", "d_arr"}) => TIM6.ARR = dhist.accepted
    /\ dpc = "d_idle" => last_delay_us = dhist.accepted

\* C17 witness: an accepted call has returned without rewriting ARR: its
\* argument was that of the preceding accepted call
C17_Witness ==
    /\ dpc = "d_idle" /\ dhist.seenUIF /\ ~dhist.wroteARR
    /\ us >= 1 /\ us <= 65535 /\ last_delay_us = us

\* a step leaves the mask bit, the pending flag, the timer counter and the
\* timer enable as they are and does not call BSP_Button_Callback
HandlerFrame ==
    /\ UNCHANGED <<IMR, PR, CNT, CEN>>
    /\ hist'.calls = hist.calls

\* C19: when EXTI0_IRQHandler finds the pending flag clear, or
\* TIM7_IRQHandler finds the update flag clear, the handler goes from its
\* test straight to its return, and neither the test nor the return changes
\* the mask bit, the pending flag, the timer counter or the timer enable, or
\* calls BSP_Button_Callback
C19_ClearFlagIsNoOp ==
    /\ [][(epc = "e_chk" /\ PR = 0 /\ epc' # epc) =>
            (epc' = "e_ret" /\ eLog' = <<>> /\ HandlerFrame)]_vars
    /\ [][(epc = "e_ret" /\ eLog = <<>> /\ epc' # epc) => HandlerFrame]_vars
    /\ [][(tpc = "t_chk" /\ UIF = 0 /\ tpc' # tpc) =>
            (tpc' = "t_ret" /\ tLog' = <<>> /\ HandlerFrame)]_vars
    /\ [][(tpc = "t_ret" /\ tLog = <<>> /\ tpc' # tpc) => HandlerFrame]_vars

\* C19 witness: each handler has been invoked with its flag clear and has
\* returned
C19_Witness ==
    hist.eNoop >= 1 /\ hist.tNoop >= 1 /\ stack = <<>>

\* ms as a number (the arguments of the model are below 2^16)
MsValue == ms[1] * (2 ^ 16) + ms[2]

\* C20: SysTick_delay_ms returns only when SysTick_Handler has been invoked
\* at least ms times since the call, also when systick_ms wraps around to
\* zero during the wait (the difference systick_ms - start it computes never
\* exceeds that number); with ms = 0 it returns without waiting; and, the
\* processor executing and SysTick_Handler being invoked again and again,
\* every call returns
C20_DelayAtLeastMs ==
    /\ [](spc = "s_done" => elapsed >= MsValue)
    /\ [](MsValue = 0 => spc \notin {"s_wfi", "s_sleep"})
    /\ [](spc \in {"s_loop", "s_wfi", "s_sleep", "s_done"} =>
            ~U32_Lt(U32(elapsed), U32_Sub(systick_ms, start)))
    /\ (spc = "s_start" ~> spc = "s_done")

\* C20 witness: a call with ms >= 2 has returned and systick_ms wrapped around
\* to zero while it waited
C20_Witness ==
    /\ spc = "s_done" /\ MsValue >= 2
    /\ start[1] = 65535 /\ systick_ms[1] = 0

\* C21: BSP_LED_On, BSP_LED_Off and BSP_LED_Toggle called with an index
\* led >= LEDn leave GPIOD->ODR as it was; called with the index of an LED they
\* change at most the bit of that LED's pin: On leaves it set, Off leaves it
\* clear, Toggle leaves it inverted, and every other bit of ODR is as it was
\* when the call began; after two consecutive Toggles of the same LED, ODR is
\* what it was before the first.
C21_LedFrame ==
    lpc = "l_ret" =>
        IF led >= LEDn THEN ODR = lhist.before
        ELSE LET pin == LED_PIN[led + 1]
             IN  /\ ODR \ {pin} = lhist.before \ {pin}
                 /\ lhist.op = "on" => pin \in ODR
                 /\ lhist.op = "off" => pin \notin ODR
                 /\ lhist.op = "toggle" => (pin \in ODR <=> pin \notin lhist.before)
                 /\ (lhist.op = "toggle" /\ lhist.prevOp = "toggle"
                        /\ lhist.prevLed = led) => ODR = lhist.prevBefore

\* the second of two Toggles of the red LED has returned while the green LED
\* and the pin next to the LEDs are on
C21_Witness ==
    /\ lpc = "l_ret" /\ led = LED_RED
    /\ lhist.op = "toggle" /\ lhist.prevOp = "toggle" /\ lhist.prevLed = LED_RED
    /\ LED_PIN[LED_GREEN + 1] \in ODR /\ 11 \in ODR
    /\ LED_PIN[LED_RED + 1] \in ODR

\* C22: when BSP_LED_Init has returned, whatever the configuration registers
\* of the LED port held before, each LED pin 12..15 is a general-purpose
\* output (MODER field 01), push-pull (OTYPER bit 0), low speed (OSPEEDR
\* field 00).
C22_LedPinsConfigured ==
    lpc = "l_done" =>
        \A k \in 1..LEDn :
            LET pin == LED_PIN[k]
            IN  /\ 2 * pin \in GPIOD.MODER /\ 2 * pin + 1 \notin GPIOD.MODER
                /\ pin \notin GPIOD.OTYPER
                /\ 2 * pin \notin GPIOD.OSPEEDR /\ 2 * pin + 1 \notin GPIOD.OSPEEDR

====
